---------------------------- MODULE Spec2Model ----------------------------
(***************************************************************************)
(* ProductFeedProcessor (src/assignment.js) as a state machine.            *)
(*                                                                         *)
(* The processor is driven by a JavaScript event loop.  Every async        *)
(* function activation (one addProductToBatch per valid item, the 'end'    *)
(* handler, one gracefulShutdown per signal) is a task with a position     *)
(* (pc).  A task that awaits a settled promise sits in the FIFO microtask  *)
(* queue `ready`; a task that awaits sleep() sits on a timer.  Macrotasks  *)
(* (timer expiry, signal, the 'end' event, the first item of a chunk) run  *)
(* only when the microtask queue is empty; further items of the same chunk *)
(* are emitted synchronously by the parser, before any microtask runs.     *)
(*                                                                         *)
(* Strings are kept by their UTF-8 byte length (and surrounding            *)
(* whitespace), an id also by the source position that makes it distinct.  *)
(* Date.now() is the variable `now`, in ticks.  In the main script         *)
(* minBatchInterval is the constructor's default 0, the rate-limit branch  *)
(* of sendBatchWithRetry never sleeps and the clock stays at StartTime;    *)
(* SpecRate runs the processor with a positive interval under a clock that *)
(* advances while the event loop is idle.  A sink call and the assignment  *)
(* of lastBatchSentTime after it are one step.  Timestamps of log entries  *)
(* and lastProgressUpdate are not state of this model.                     *)
(*                                                                         *)
(* config.maxRetries is the variable maxRetries: 3 in every run but those  *)
(* of SpecRetries, which takes each value MAX_RETRIES can give.  The       *)
(* logger calls of a delivery are kept in `events`; what a Logger writes   *)
(* is observed in SpecLogger, a Logger by itself whose calls are kept in   *)
(* `logCalls`, and the pipeline leaves that history alone.                 *)
(***************************************************************************)
EXTENDS Integers, Sequences, FiniteSets, TLC

(* ---------------------------- configuration ---------------------------- *)

MAX_BATCH_SIZE == 5 * 1024 * 1024

BUFFER_SIZE == 1024

\* the value of config.maxRetries when MAX_RETRIES gives none
DefaultMaxRetries == 3

retryDelay == 1000

showProgress == TRUE

logLevel == "info"

LOG_LEVELS == [error |-> 0, warn |-> 1, info |-> 2, debug |-> 3]

LevelNames == DOMAIN LOG_LEVELS

\* the constructor: this.level = LOG_LEVELS[level] || LOG_LEVELS.info
LoggerLevel(name) ==
    IF LOG_LEVELS[name] # 0 THEN LOG_LEVELS[name] ELSE LOG_LEVELS.info

\* a positive options.minBatchInterval, in ticks of the clock
RateInterval == 2

\* Date.now() when the processor is constructed, in ticks: far more than
\* any interval after time 0
StartTime == 2

\* an environment variable: not set, or a string that is a decimal integer
\* or has no leading digits
Unset == [t |-> "unset", n |-> 0]

Text == [t |-> "text", n |-> 0]

IntText(n) == [t |-> "int", n |-> n]

\* parseInt of an environment variable: NaN unless it starts with an integer
ParseInt(env) == [nan |-> env.t # "int", n |-> env.n]

\* maxRetries: parseInt(process.env.MAX_RETRIES) || 3
ConfigMaxRetries(env) ==
    LET v == ParseInt(env)
    IN  IF v.nan \/ v.n = 0 THEN DefaultMaxRetries ELSE v.n

(* ------------------------------- bounds -------------------------------- *)

\* the number of calls made on a logger under test
MaxLogCalls == 3

\* MAX_RETRIES is an integer from -MaxEnvRetries to MaxEnvRetries, a text
\* or not set
MaxEnvRetries == 3

EnvValues ==
    {Unset, Text} \cup {IntText(n) : n \in (-MaxEnvRetries)..MaxEnvRetries}

\* the last tick of the clock in a run
MaxTime == 4

\* number of raw items the source emits in a run
MaxItems == 3

\* number of shutdown signals delivered in a run
MaxShutdowns == 2

\* number of sink calls that raise in a run
MaxSinkFailures == 3

(* ------------------------- field values (strings) ---------------------- *)

\* a field that the raw item does not have (undefined)
Absent == [t |-> "absent"]

\* a string of `len` bytes of text `c`, surrounded by `ws` whitespace bytes
Str(ws, len, c) == [t |-> "str", ws |-> ws, len |-> len, c |-> c]

\* a text-holder object { $text: text }
Obj(text) == [t |-> "obj", text |-> text]

EmptyStr == Str(0, 0, 0)

\* JavaScript truthiness of a field value
Truthy(v) == \/ v.t = "obj"
             \/ v.t = "str" /\ v.ws + v.len > 0

\* a || b
OrElse(a, b) == IF Truthy(a) THEN a ELSE b

\* String.prototype.trim
Trim(s) == [s EXCEPT !.ws = 0]

\* the clean-up loop of extractProductData, for one key
CleanField(v) ==
    IF v.t = "str" THEN Trim(v)
    ELSE IF Truthy(v) /\ v.t = "obj" /\ Truthy(v.text) THEN Trim(v.text)
    ELSE v

extractProductData(item) ==
    [id          |-> CleanField(OrElse(OrElse(item.gid, item.id), EmptyStr)),
     title       |-> CleanField(OrElse(item.title, EmptyStr)),
     description |-> CleanField(OrElse(OrElse(OrElse(item.gdescription,
                                                     item.description),
                                              item.summary), EmptyStr))]

\* product.id && product.title
IsValidProduct(product) == Truthy(product.id) /\ Truthy(product.title)

(* ------------------------------ wire format ---------------------------- *)

\* UTF-8 byte length of JSON.stringify(v) for one field value
JsonValueBytes(v) ==
    IF v.t = "str" THEN v.ws + v.len + 2
    ELSE IF v.t = "obj" /\ v.text.t = "str" THEN 12 + v.text.ws + v.text.len
    ELSE 2

\* {"id":_,"title":_,"description":_}
JsonObjectBytes(p) ==
    31 + JsonValueBytes(p.id) + JsonValueBytes(p.title)
       + JsonValueBytes(p.description)

\* the product slot of a task or token that carries no product
NoProduct == [id |-> Absent, title |-> Absent, description |-> Absent]

\* one token of a serialized group: "[", "]", "," or an encoded object
Punct(ch) == [tok |-> ch, val |-> NoProduct]

ObjectToken(p) == [tok |-> "object", val |-> p]

RECURSIVE JoinObjects(_)
JoinObjects(batch) ==
    IF batch = <<>> THEN <<>>
    ELSE IF Len(batch) = 1 THEN <<ObjectToken(Head(batch))>>
    ELSE <<ObjectToken(Head(batch)), Punct(",")>> \o JoinObjects(Tail(batch))

\* JSON.stringify(batch): the text of the group as it is now
JsonStringify(batch) == <<Punct("[")>> \o JoinObjects(batch) \o <<Punct("]")>>

TokenBytes(tk) == IF tk.tok = "object" THEN JsonObjectBytes(tk.val) ELSE 1

RECURSIVE ByteLength(_)
\* Buffer.byteLength(json, 'utf8')
ByteLength(json) ==
    IF json = <<>> THEN 0
    ELSE TokenBytes(Head(json)) + ByteLength(Tail(json))

\* a size estimate that leaves out the brackets and commas of the array
SizeOfObjectsOnly(batch) == ByteLength(JoinObjects(batch)) - (Len(batch) - 1)

calculateBatchSize(batch) == ByteLength(JsonStringify(batch))

\* JSON.parse(json): the objects of a serialized group, in order
JsonParse(json) ==
    LET objs == SelectSeq(json, LAMBDA tk : tk.tok = "object")
    IN  [i \in 1..Len(objs) |-> objs[i].val]

\* the serialized form of "no group" held by a task that is not sending
NoJson == <<>>

(* ------------------------------ the source ----------------------------- *)

ItemKinds == {"small", "big", "huge", "noid"}

\* raw items in the shapes a feed can give to id and title: a bare id, a
\* whitespace-only or empty g:id next to a bare id, no title, a blank
\* title, a text holder with text, a text holder with blank or empty text,
\* and the same for the three sources of the description
ShapeKinds == {"small", "noid", "bareid", "blankgid", "emptygid", "notitle",
               "blanktitle", "holder", "blankholder", "hollow", "baredesc",
               "summary", "nodesc", "holderdesc", "hollowdesc"}

ShapeItem(kind, k) ==
    [gid          |-> IF kind \in {"noid", "bareid"} THEN Absent
                      ELSE IF kind = "blankgid" THEN Str(2, 0, k)
                      ELSE IF kind = "emptygid" THEN Str(0, 0, k)
                      ELSE IF kind = "holder" THEN Obj(Str(1, 2, k))
                      ELSE IF kind = "blankholder" THEN Obj(Str(2, 0, k))
                      ELSE IF kind = "hollow" THEN Obj(Str(0, 0, k))
                      ELSE Str(0, 2, k),
     id           |-> IF kind \in {"bareid", "blankgid", "emptygid"}
                      THEN Str(1, 2, k) ELSE Absent,
     title        |-> IF kind = "notitle" THEN Absent
                      ELSE IF kind = "blanktitle" THEN Str(3, 0, 0)
                      ELSE Str(2, 5, 0),
     gdescription |-> IF kind \in {"baredesc", "summary", "nodesc"}
                      THEN Absent
                      ELSE IF kind = "holderdesc" THEN Obj(Str(1, 6, 0))
                      ELSE IF kind = "hollowdesc" THEN Obj(Str(0, 0, 0))
                      ELSE Str(1, 10, 0),
     description  |-> IF kind = "baredesc" THEN Str(1, 7, 0) ELSE Absent,
     summary      |-> IF kind \in {"baredesc", "summary"} THEN Str(0, 4, 0)
                      ELSE Absent]

\* the raw item of a kind at source position k (its id text is unique to k)
RawItem(kind, k) ==
    IF kind \in ItemKinds
    THEN [gid          |-> IF kind = "noid" THEN Absent ELSE Str(0, 2, k),
          id           |-> Absent,
          title        |-> Str(2, 5, 0),
          gdescription |-> IF kind = "big" THEN Str(0, 3000000, 0)
                           ELSE IF kind = "huge" THEN Str(0, 6000000, 0)
                           ELSE Str(1, 10, 0),
          description  |-> Absent,
          summary      |-> Absent]
    ELSE ShapeItem(kind, k)

(* -------------------------------- state -------------------------------- *)

VARIABLES
    currentBatch,       \* this.currentBatch
    currentBatchSize,   \* this.currentBatchSize
    productsProcessed,  \* this.productsProcessed
    batchesSent,        \* this.batchesSent
    isShuttingDown,     \* this.isShuttingDown
    skippedProducts,    \* this.skippedProducts
    errors,             \* this.errors, the error ledger
    metrics,            \* this.logger.metrics
    tasks,              \* the async activations that have suspended
    ready,              \* the microtask queue (FIFO of task ids)
    inChunk,            \* the parser is between two items of one chunk
    nEmitted,           \* raw items emitted by the source so far
    paused,             \* xml.pause() was called
    ended,              \* the source emitted 'end'
    result,             \* the promise returned by process()
    exitCode,           \* process.exit(code): "0" or "1", "none" while running
    nShutdowns,         \* signals handled so far
    failed,             \* the source emitted 'error'
    sinkLog,            \* history: every externalService.call, in order
    events,             \* history: the logger calls and sleeps of deliveries
    offered,            \* history: products given to addProductToBatch
    received,           \* history: raw items handled while not shutting down
    now,                \* Date.now(), in ticks
    lastBatchSentTime,  \* this.lastBatchSentTime
    minBatchInterval,   \* this.minBatchInterval
    maxRetries,         \* config.maxRetries
    requested,          \* the level a Logger was constructed with
    level,              \* Logger.level
    logCalls            \* history: the calls made on a Logger under test

vars == <<currentBatch, currentBatchSize, productsProcessed, batchesSent,
          isShuttingDown, skippedProducts, errors, metrics, tasks, ready,
          inChunk, nEmitted, paused, ended, result, exitCode, nShutdowns,
          failed, sinkLog, events, offered, received, now,
          lastBatchSentTime, minBatchInterval, maxRetries, requested,
          level, logCalls>>

OfferTask(k) == <<"offer", k>>

EndTask == <<"end", 0>>

ShutdownTask(j) == <<"shutdown", j>>

ErrorTask == <<"error", 0>>

\* the locals of an activation that has not called sendBatch yet
NewTask(product) ==
    [pc |-> "start", product |-> product, json |-> NoJson, group |-> <<>>,
     batchNumber |-> 0, attempt |-> 0, lastError |-> 0, outcome |-> "none",
     clean |-> FALSE, wake |-> 0]

\* a task is inside sendBatch: its group is serialized and not yet reset
InSendBatch(t) ==
    tasks[t].pc \in {"rate_sleep", "backoff", "sendBatch_await"}

\* a task is inside sendBatchWithRetry: its delivery has not settled
InDelivery(t) == tasks[t].pc \in {"rate_sleep", "backoff"}

SinkFailures == Cardinality({i \in 1..Len(sinkLog) : ~sinkLog[i].ok})

\* pendingOperations all settled, given the task table tk
AllOffersSettled(tk) ==
    \A t \in DOMAIN tk : t[1] = "offer" => tk[t].pc = "done"

\* the processor and the event loop before the first event
InitPipeline ==
    /\ currentBatch = <<>>
    /\ currentBatchSize = 0
    /\ productsProcessed = 0
    /\ batchesSent = 0
    /\ isShuttingDown = FALSE
    /\ skippedProducts = 0
    /\ errors = <<>>
    /\ metrics = [productsProcessed |-> 0, batchesSent |-> 0, errors |-> 0,
                  totalBytesProcessed |-> 0]
    /\ tasks = <<>>
    /\ ready = <<>>
    /\ inChunk = FALSE
    /\ nEmitted = 0
    /\ paused = FALSE
    /\ ended = FALSE
    /\ result = "pending"
    /\ exitCode = "none"
    /\ nShutdowns = 0
    /\ failed = FALSE
    /\ sinkLog = <<>>
    /\ events = <<>>
    /\ offered = <<>>
    /\ received = <<>>
    /\ now = StartTime
    /\ lastBatchSentTime = 0

\* the processor as constructed with options.minBatchInterval = interval,
\* its logger with config.logLevel
InitWith(interval) ==
    /\ InitPipeline
    /\ minBatchInterval = interval
    /\ requested = logLevel
    /\ level = LoggerLevel(logLevel)
    /\ logCalls = <<>>

\* the main script constructs the processor without options, and
\* MAX_RETRIES is not set
Init == InitWith(0) /\ maxRetries = ConfigMaxRetries(Unset)

\* a caller constructs the processor with a minimum interval between sends
InitRate == InitWith(RateInterval) /\ maxRetries = ConfigMaxRetries(Unset)

\* a Logger constructed with any of the level names
InitLogger ==
    /\ InitPipeline
    /\ minBatchInterval = 0
    /\ maxRetries = ConfigMaxRetries(Unset)
    /\ requested \in LevelNames
    /\ level = LoggerLevel(requested)
    /\ logCalls = <<>>

\* the main script under every setting of MAX_RETRIES
InitRetries ==
    /\ InitWith(0)
    /\ maxRetries \in {ConfigMaxRetries(env) : env \in EnvValues}

(* ------------------------------- logger -------------------------------- *)

\* a recordBatch that counts the group but not its bytes
recordBatchCountOnly(m, batchSize, productCount) ==
    [m EXCEPT !.batchesSent = @ + 1,
              !.productsProcessed = @ + productCount]

\* Logger.recordBatch
recordBatch(m, batchSize, productCount) ==
    [m EXCEPT !.batchesSent = @ + 1,
              !.productsProcessed = @ + productCount,
              !.totalBytesProcessed = @ + batchSize]

\* an error counter that stops at one
LoggerErrorOnce(m) == [m EXCEPT !.errors = 1]

\* Logger.error
LoggerError(m) == [m EXCEPT !.errors = @ + 1]

\* Logger.log: the entry is written if LOG_LEVELS[level] <= this.level
Log(method) == [method |-> method, out |-> LOG_LEVELS[method] <= level]

\* a call of error, warn, info or debug on the logger under test
LogCall(method) ==
    /\ Len(logCalls) < MaxLogCalls
    /\ metrics' = IF method = "error" THEN LoggerError(metrics) ELSE metrics
    /\ logCalls' = Append(logCalls, Log(method))
    /\ UNCHANGED <<currentBatch, currentBatchSize, productsProcessed,
                   batchesSent, isShuttingDown, skippedProducts, errors,
                   tasks, ready, inChunk, nEmitted, paused, ended, result,
                   exitCode, nShutdowns, failed, sinkLog, events, offered,
                   received, now, lastBatchSentTime, minBatchInterval,
                   maxRetries, requested, level>>

\* a call of recordBatch on the logger under test
LogRecordBatch(batchSize, productCount) ==
    /\ Len(logCalls) < MaxLogCalls
    /\ metrics' = recordBatch(metrics, batchSize, productCount)
    /\ logCalls' = Append(logCalls, [method |-> "recordBatch", out |-> FALSE])
    /\ UNCHANGED <<currentBatch, currentBatchSize, productsProcessed,
                   batchesSent, isShuttingDown, skippedProducts, errors,
                   tasks, ready, inChunk, nEmitted, paused, ended, result,
                   exitCode, nShutdowns, failed, sinkLog, events, offered,
                   received, now, lastBatchSentTime, minBatchInterval,
                   maxRetries, requested, level>>

(* --------------------------- delivery pipeline ------------------------- *)

\* a retry loop that gives up one attempt early
LoopStopsEarly(attempt) == attempt < maxRetries - 1

\* a retry loop without a ceiling
LoopNeverStops(attempt) == TRUE

\* the loop condition of sendBatchWithRetry: attempt < maxRetries
LoopContinues(attempt) == attempt < maxRetries

\* the failure description that errors.push records
LedgerError(lastError) == lastError

\* this.errors.push({ batchNumber, error: lastError.message, timestamp })
PushError(ledger, batchNumber, lastError) ==
    Append(ledger, [batchNumber |-> batchNumber,
                    error |-> LedgerError(lastError)])

\* the guard of the backoff: attempt < maxRetries - 1
BackoffFollows(attempt) == attempt < maxRetries - 1

\* a backoff that does not grow with the attempt
BackoffConstant(attempt) == retryDelay

\* backoffMs = config.retryDelay * Math.pow(2, attempt)
BackoffMs(attempt) == retryDelay * 2 ^ attempt

\* one logger call or sleep of a delivery; attempt is the loop index
Event(ev, rec, ms) ==
    [ev |-> ev, batchNumber |-> rec.batchNumber, attempt |-> rec.attempt,
     ms |-> ms]

\* a catch block that does not log the failure as a warning
SilentCatch(rec) ==
    IF BackoffFollows(rec.attempt)
    THEN <<Event("debug", rec, BackoffMs(rec.attempt)),
           Event("sleep", rec, BackoffMs(rec.attempt))>>
    ELSE <<>>

\* what the catch block of the retry loop logs and waits for
CatchEvents(rec) ==
    <<Event("warn", rec, 0)>> \o
    (IF BackoffFollows(rec.attempt)
     THEN <<Event("debug", rec, BackoffMs(rec.attempt)),
            Event("sleep", rec, BackoffMs(rec.attempt))>>
     ELSE <<>>)

\* One iteration of the retry loop of sendBatchWithRetry for task t whose
\* locals are rec: the sink is called with rec.json and either returns (ok)
\* or raises.  The description of a raised error is the number of the call.
\* rd is the microtask queue as the caller leaves it.
SinkAttempt(t, rec, ok, rd) ==
    LET callNo == Len(sinkLog) + 1
        call   == [batchNumber |-> rec.batchNumber, json |-> rec.json,
                   ok |-> ok, error |-> IF ok THEN 0 ELSE callNo,
                   at |-> now]
    IN  /\ sinkLog' = Append(sinkLog, call)
        /\ lastBatchSentTime' = IF ok THEN now ELSE lastBatchSentTime
        /\ IF ok
           THEN /\ metrics' = recordBatch(metrics, ByteLength(rec.json),
                                          Len(JsonParse(rec.json)))
                /\ events' = IF showProgress
                             THEN Append(events, Event("info", rec, 0))
                             ELSE events
                /\ errors' = errors
                /\ tasks' = (t :> [rec EXCEPT !.pc = "sendBatch_await",
                                              !.outcome = "ok"]) @@ tasks
                /\ ready' = Append(rd, t)
           ELSE /\ SinkFailures < MaxSinkFailures
                /\ IF LoopContinues(rec.attempt + 1)
                   THEN \* sleep(backoffMs), then the next iteration
                        /\ metrics' = metrics
                        /\ events' = events \o CatchEvents(rec)
                        /\ errors' = errors
                        /\ tasks' = (t :> [rec EXCEPT !.pc = "backoff",
                                                      !.lastError = callNo])
                                    @@ tasks
                        /\ ready' = rd
                   ELSE \* all retries failed: ledger entry, then throw
                        /\ metrics' = LoggerError(metrics)
                        /\ events' = events \o CatchEvents(rec)
                                            \o <<Event("error", rec, 0)>>
                        /\ errors' = PushError(errors, rec.batchNumber,
                                                callNo)
                        /\ tasks' = (t :> [rec EXCEPT
                                             !.pc = "sendBatch_await",
                                             !.lastError = callNo,
                                             !.outcome = "throw"]) @@ tasks
                        /\ ready' = Append(rd, t)

\* a rate limit that is looked at only before the first attempt
RateCheckedOnce(attempt) ==
    /\ attempt = 0
    /\ minBatchInterval > 0
    /\ now - lastBatchSentTime < minBatchInterval

\* the rate limit applies: minBatchInterval > 0 and too little time since
\* the last successful send
RateLimited(attempt) ==
    /\ minBatchInterval > 0
    /\ now - lastBatchSentTime < minBatchInterval

\* The head of one iteration of the retry loop: the task sleeps for the
\* rest of the interval if the rate limit applies, else it calls the sink.
Attempt(t, rec, rd) ==
    IF RateLimited(rec.attempt)
    THEN /\ tasks' = (t :> [rec EXCEPT
                              !.pc = "rate_sleep",
                              !.wake = now + (minBatchInterval
                                              - (now - lastBatchSentTime))])
                     @@ tasks
         /\ ready' = rd
         /\ UNCHANGED <<sinkLog, events, metrics, errors, lastBatchSentTime>>
    ELSE \E ok \in BOOLEAN : SinkAttempt(t, rec, ok, rd)

\* sendBatchWithRetry from its call: the first iteration of the loop, or,
\* when the loop condition fails at once, the code after the loop, where
\* reading lastError.message of the undefined lastError raises a TypeError
\* before logger.error and errors.push are reached
EnterLoop(t, rec, rd) ==
    IF LoopContinues(0)
    THEN Attempt(t, rec, rd)
    ELSE /\ tasks' = (t :> [rec EXCEPT !.pc = "sendBatch_await",
                                       !.outcome = "throw"]) @@ tasks
         /\ ready' = Append(rd, t)
         /\ UNCHANGED <<sinkLog, events, metrics, errors, lastBatchSentTime>>

\* a sendBatch without its check for an empty group
SendBatchUnguarded(t, rec, rd) ==
    /\ batchesSent' = batchesSent + 1
    /\ EnterLoop(t, [rec EXCEPT !.json = JsonStringify(currentBatch),
                                !.group = currentBatch,
                                !.batchNumber = batchesSent + 1,
                                !.attempt = 0], rd)

\* a sendBatch that counts a group only once it has been delivered
SendBatchCountsLate(t, rec, rd) ==
    IF Len(currentBatch) = 0
    THEN /\ tasks' = (t :> [rec EXCEPT !.pc = "caller_await",
                                       !.outcome = "ok"]) @@ tasks
         /\ ready' = Append(rd, t)
         /\ UNCHANGED <<batchesSent, sinkLog, events, metrics, errors,
                        lastBatchSentTime>>
    ELSE /\ batchesSent' = metrics.batchesSent
         /\ EnterLoop(t, [rec EXCEPT !.json = JsonStringify(currentBatch),
                                     !.group = currentBatch,
                                     !.batchNumber = metrics.batchesSent + 1,
                                     !.attempt = 0], rd)

\* sendBatch called by task t (locals rec), up to its first suspension
SendBatch(t, rec, rd) ==
    IF Len(currentBatch) = 0
    THEN /\ tasks' = (t :> [rec EXCEPT !.pc = "caller_await",
                                       !.outcome = "ok"]) @@ tasks
         /\ ready' = Append(rd, t)
         /\ UNCHANGED <<batchesSent, sinkLog, events, metrics, errors,
                        lastBatchSentTime>>
    ELSE /\ batchesSent' = batchesSent + 1
         /\ EnterLoop(t, [rec EXCEPT !.json = JsonStringify(currentBatch),
                                     !.group = currentBatch,
                                     !.batchNumber = batchesSent + 1,
                                     !.attempt = 0], rd)

(* ------------------------------ accumulator ---------------------------- *)

\* the flush condition of addProductToBatch
NeedsFlush(batch, product) ==
    /\ calculateBatchSize(Append(batch, product)) >= MAX_BATCH_SIZE - BUFFER_SIZE
    /\ Len(batch) > 0

\* a push that does not count the record as processed
PushUncounted(product) ==
    /\ currentBatch' = Append(currentBatch, product)
    /\ currentBatchSize' = calculateBatchSize(Append(currentBatch, product))
    /\ productsProcessed' = productsProcessed

\* a push that keeps the size measured before it
PushStaleSize(product) ==
    /\ currentBatch' = Append(currentBatch, product)
    /\ currentBatchSize' = currentBatchSize
    /\ productsProcessed' = productsProcessed + 1

\* the tail of addProductToBatch: push, remeasure, count
PushProduct(product) ==
    /\ currentBatch' = Append(currentBatch, product)
    /\ currentBatchSize' = calculateBatchSize(Append(currentBatch, product))
    /\ productsProcessed' = productsProcessed + 1

(* --------------------------- source event handlers --------------------- *)

Running == exitCode = "none"

\* the parser may call an item handler: a new chunk arrives as a macrotask,
\* or the previous item of the same chunk has just been handled
CanEmit ==
    /\ Running
    /\ ~paused
    /\ ~ended
    /\ ~failed
    /\ nEmitted < MaxItems
    /\ (ready = <<>> \/ inChunk)

\* item handlers without the isShuttingDown check
AcceptingAlways == TRUE

\* the item handlers go past their isShuttingDown check
Accepting == ~isShuttingDown

\* 'endElement: item' / 'endElement: entry' while shutting down
ItemWhileShuttingDown ==
    /\ CanEmit
    /\ ~Accepting
    /\ paused' = TRUE
    /\ nEmitted' = nEmitted + 1
    /\ inChunk' = FALSE
    /\ UNCHANGED <<currentBatch, currentBatchSize, productsProcessed,
                   batchesSent, isShuttingDown, skippedProducts, errors,
                   metrics, tasks, ready, ended, result, exitCode,
                   nShutdowns, sinkLog, events, offered, received, failed,
                   now, minBatchInterval, lastBatchSentTime, maxRetries,
                   requested, level, logCalls>>

\* item handler, product without id or title
ItemSkipped(kind) ==
    /\ CanEmit
    /\ Accepting
    /\ ~IsValidProduct(extractProductData(RawItem(kind, nEmitted + 1)))
    /\ skippedProducts' = skippedProducts + 1
    /\ received' = Append(received, RawItem(kind, nEmitted + 1))
    /\ nEmitted' = nEmitted + 1
    /\ inChunk' = TRUE
    /\ UNCHANGED <<currentBatch, currentBatchSize, productsProcessed,
                   batchesSent, isShuttingDown, errors, metrics, tasks,
                   ready, paused, ended, result, exitCode, nShutdowns,
                   sinkLog, events, offered, failed, now, minBatchInterval,
                   lastBatchSentTime, maxRetries, requested, level,
                   logCalls>>

\* item handler, valid product, addProductToBatch runs to its end at once
ItemAppended(kind) ==
    LET product == extractProductData(RawItem(kind, nEmitted + 1))
    IN  /\ CanEmit
        /\ Accepting
        /\ IsValidProduct(product)
        /\ ~NeedsFlush(currentBatch, product)
        /\ PushProduct(product)
        /\ offered' = Append(offered, product)
        /\ received' = Append(received, RawItem(kind, nEmitted + 1))
        /\ nEmitted' = nEmitted + 1
        /\ inChunk' = TRUE
        /\ UNCHANGED <<batchesSent, isShuttingDown, skippedProducts, errors,
                       metrics, tasks, ready, paused, ended, result,
                       exitCode, nShutdowns, sinkLog, events, failed, now,
                       minBatchInterval, lastBatchSentTime, maxRetries,
                       requested, level, logCalls>>

\* item handler, valid product, addProductToBatch suspends in sendBatch
ItemFlushes(kind) ==
    LET product == extractProductData(RawItem(kind, nEmitted + 1))
    IN  /\ CanEmit
        /\ Accepting
        /\ IsValidProduct(product)
        /\ NeedsFlush(currentBatch, product)
        /\ SendBatch(OfferTask(nEmitted + 1), NewTask(product), ready)
        /\ offered' = Append(offered, product)
        /\ received' = Append(received, RawItem(kind, nEmitted + 1))
        /\ nEmitted' = nEmitted + 1
        /\ inChunk' = TRUE
        /\ UNCHANGED <<currentBatch, currentBatchSize, productsProcessed,
                       isShuttingDown, skippedProducts, paused, ended,
                       result, exitCode, nShutdowns, failed, now,
                       minBatchInterval, maxRetries, requested, level,
                       logCalls>>

\* the 'end' event: await Promise.all(pendingOperations)
EndEvent ==
    /\ Running
    /\ ready = <<>>
    /\ ~paused
    /\ ~ended
    /\ ~failed
    /\ ended' = TRUE
    /\ IF AllOffersSettled(tasks)
       THEN /\ tasks' = (EndTask :> [NewTask(NoProduct) EXCEPT
                                       !.pc = "end_all"]) @@ tasks
            /\ ready' = Append(ready, EndTask)
       ELSE /\ tasks' = (EndTask :> [NewTask(NoProduct) EXCEPT
                                       !.pc = "end_wait"]) @@ tasks
            /\ ready' = ready
    /\ inChunk' = FALSE
    /\ UNCHANGED <<currentBatch, currentBatchSize, productsProcessed,
                   batchesSent, isShuttingDown, skippedProducts, errors,
                   metrics, nEmitted, paused, result, exitCode, nShutdowns,
                   sinkLog, events, offered, received, failed, now,
                   minBatchInterval, lastBatchSentTime, maxRetries,
                   requested, level, logCalls>>

\* the 'error' event of the parser: log, reject(error); the .catch of the
\* main script is queued behind the continuations already waiting
SourceError ==
    /\ Running
    /\ ~paused
    /\ ~ended
    /\ ~failed
    /\ (ready = <<>> \/ inChunk)
    /\ failed' = TRUE
    /\ metrics' = LoggerError(metrics)
    /\ result' = "rejected"
    /\ tasks' = (ErrorTask :> [NewTask(NoProduct) EXCEPT
                                 !.pc = "exit_await",
                                 !.outcome = "throw"]) @@ tasks
    /\ ready' = Append(ready, ErrorTask)
    /\ inChunk' = FALSE
    /\ UNCHANGED <<currentBatch, currentBatchSize, productsProcessed,
                   batchesSent, isShuttingDown, skippedProducts, errors,
                   nEmitted, paused, ended, exitCode, nShutdowns, sinkLog,
                   events, offered, received, now, minBatchInterval,
                   lastBatchSentTime, maxRetries, requested, level,
                   logCalls>>

(* -------------------------------- signals ------------------------------ *)

\* a signal: gracefulShutdown -> processor.shutdown(), up to its first
\* suspension.  isProcessing is true for as long as the process has not
\* exited, so the guard of gracefulShutdown never returns early.
ShutdownRequest ==
    LET t   == ShutdownTask(nShutdowns + 1)
        rec == [NewTask(NoProduct) EXCEPT
                  !.clean = (batchesSent = 0 /\ DOMAIN tasks = {})]
    IN  /\ Running
        /\ ready = <<>>
        /\ nShutdowns < MaxShutdowns
        /\ nShutdowns' = nShutdowns + 1
        /\ isShuttingDown' = TRUE
        /\ IF Len(currentBatch) > 0
           THEN SendBatch(t, rec, ready)
           ELSE /\ tasks' = (t :> [rec EXCEPT !.pc = "exit_await",
                                              !.outcome = "ok"]) @@ tasks
                /\ ready' = Append(ready, t)
                /\ UNCHANGED <<batchesSent, sinkLog, events, metrics,
                               errors, lastBatchSentTime>>
        /\ inChunk' = FALSE
        /\ UNCHANGED <<currentBatch, currentBatchSize, productsProcessed,
                       skippedProducts, nEmitted, paused, ended, result,
                       exitCode, offered, received, failed, now,
                       minBatchInterval, maxRetries, requested, level,
                       logCalls>>

(* -------------------------------- timers ------------------------------- *)

\* a retry that serializes the accumulator again
RetryReserializes(rec) ==
    [rec EXCEPT !.attempt = @ + 1, !.json = JsonStringify(currentBatch)]

\* the locals of sendBatchWithRetry in its next iteration: attempt++, with
\* the batchJson and batchNumber it was called with
NextIteration(rec) == [rec EXCEPT !.attempt = @ + 1]

\* sleep(backoffMs) ends: the next iteration of the retry loop
BackoffEnds(t) ==
    /\ Running
    /\ ready = <<>>
    /\ t \in DOMAIN tasks
    /\ tasks[t].pc = "backoff"
    /\ Attempt(t, NextIteration(tasks[t]), ready)
    /\ inChunk' = FALSE
    /\ UNCHANGED <<currentBatch, currentBatchSize, productsProcessed,
                   batchesSent, isShuttingDown, skippedProducts, nEmitted,
                   paused, ended, result, exitCode, nShutdowns, offered,
                   received, failed, now, minBatchInterval, maxRetries,
                   requested, level, logCalls>>

\* sleep(minBatchInterval - timeSinceLastBatch) ends: the sink is called
RateSleepEnds(t) ==
    /\ Running
    /\ ready = <<>>
    /\ t \in DOMAIN tasks
    /\ tasks[t].pc = "rate_sleep"
    /\ now >= tasks[t].wake
    /\ \E ok \in BOOLEAN : SinkAttempt(t, tasks[t], ok, ready)
    /\ inChunk' = FALSE
    /\ UNCHANGED <<currentBatch, currentBatchSize, productsProcessed,
                   batchesSent, isShuttingDown, skippedProducts, nEmitted,
                   paused, ended, result, exitCode, nShutdowns, offered,
                   received, failed, now, minBatchInterval, maxRetries,
                   requested, level, logCalls>>

\* the clock advances by one tick while the event loop is idle
Tick ==
    /\ Running
    /\ ready = <<>>
    /\ now < MaxTime
    /\ now' = now + 1
    /\ inChunk' = FALSE
    /\ UNCHANGED <<currentBatch, currentBatchSize, productsProcessed,
                   batchesSent, isShuttingDown, skippedProducts, errors,
                   metrics, tasks, ready, nEmitted, paused, ended, result,
                   exitCode, nShutdowns, failed, sinkLog, events, offered,
                   received, lastBatchSentTime, minBatchInterval,
                   maxRetries, requested, level, logCalls>>

(* ------------------------------ microtasks ----------------------------- *)

\* task t is the next continuation the event loop runs
IsNext(t, pc) ==
    /\ Running
    /\ ready # <<>>
    /\ Head(ready) = t
    /\ tasks[t].pc = pc

\* a finally block that also empties the ledger
FinallyClearsLedger(t) ==
    /\ IsNext(t, "sendBatch_await")
    /\ currentBatch' = <<>>
    /\ currentBatchSize' = 0
    /\ errors' = <<>>
    /\ tasks' = [tasks EXCEPT ![t].pc = "caller_await"]
    /\ ready' = Append(Tail(ready), t)
    /\ inChunk' = FALSE
    /\ UNCHANGED <<productsProcessed, batchesSent, isShuttingDown,
                   skippedProducts, metrics, nEmitted, paused, ended,
                   result, exitCode, nShutdowns, sinkLog, events, offered,
                   received, failed, now, minBatchInterval,
                   lastBatchSentTime, maxRetries, requested, level,
                   logCalls>>

\* sendBatch after `await this.sendBatchWithRetry(...)`: the finally block
\* resets the accumulator, then sendBatch settles as the delivery did
SendBatchFinally(t) ==
    /\ IsNext(t, "sendBatch_await")
    /\ currentBatch' = <<>>
    /\ currentBatchSize' = 0
    /\ tasks' = [tasks EXCEPT ![t].pc = "caller_await"]
    /\ ready' = Append(Tail(ready), t)
    /\ inChunk' = FALSE
    /\ UNCHANGED <<productsProcessed, batchesSent, isShuttingDown,
                   skippedProducts, errors, metrics, nEmitted, paused,
                   ended, result, exitCode, nShutdowns, sinkLog, events,
                   offered, received, failed, now, minBatchInterval,
                   lastBatchSentTime, maxRetries, requested, level,
                   logCalls>>

\* the task table and queue once an offer has settled: Promise.all of the
\* 'end' handler resolves with the last pending operation
SettleOffer(t) ==
    LET tk == [tasks EXCEPT ![t].pc = "done"]
    IN  IF /\ EndTask \in DOMAIN tk
           /\ tk[EndTask].pc = "end_wait"
           /\ AllOffersSettled(tk)
        THEN /\ tasks' = [tk EXCEPT ![EndTask].pc = "end_all"]
             /\ ready' = Append(Tail(ready), EndTask)
        ELSE /\ tasks' = tk
             /\ ready' = Tail(ready)

\* addProductToBatch after `await this.sendBatch()`: the product is pushed
OfferResumes(t) ==
    /\ t[1] = "offer"
    /\ IsNext(t, "caller_await")
    /\ tasks[t].outcome = "ok"
    /\ PushProduct(tasks[t].product)
    /\ SettleOffer(t)
    /\ inChunk' = FALSE
    /\ UNCHANGED <<batchesSent, isShuttingDown, skippedProducts, errors,
                   metrics, nEmitted, paused, ended, result, exitCode,
                   nShutdowns, sinkLog, events, offered, received, failed,
                   now, minBatchInterval, lastBatchSentTime, maxRetries,
                   requested, level, logCalls>>

\* sendBatch threw inside addProductToBatch: the .catch of the item handler
\* logs the error and the operation settles
OfferFails(t) ==
    /\ t[1] = "offer"
    /\ IsNext(t, "caller_await")
    /\ tasks[t].outcome = "throw"
    /\ metrics' = LoggerError(metrics)
    /\ SettleOffer(t)
    /\ inChunk' = FALSE
    /\ UNCHANGED <<currentBatch, currentBatchSize, productsProcessed,
                   batchesSent, isShuttingDown, skippedProducts, errors,
                   nEmitted, paused, ended, result, exitCode, nShutdowns,
                   sinkLog, events, offered, received, failed, now,
                   minBatchInterval, lastBatchSentTime, maxRetries,
                   requested, level, logCalls>>

\* 'end' handler after Promise.all: the final sendBatch
EndFlush ==
    /\ IsNext(EndTask, "end_all")
    /\ SendBatch(EndTask, tasks[EndTask], Tail(ready))
    /\ inChunk' = FALSE
    /\ UNCHANGED <<currentBatch, currentBatchSize, productsProcessed,
                   isShuttingDown, skippedProducts, nEmitted, paused, ended,
                   result, exitCode, nShutdowns, offered, received, failed,
                   now, minBatchInterval, maxRetries, requested, level,
                   logCalls>>

\* 'end' handler after `await this.sendBatch()`: resolve() or reject(error)
EndSettles ==
    /\ IsNext(EndTask, "caller_await")
    /\ IF tasks[EndTask].outcome = "ok"
       THEN /\ result' = "resolved"
            /\ metrics' = metrics
       ELSE /\ result' = "rejected"
            /\ metrics' = LoggerError(metrics)
    /\ tasks' = [tasks EXCEPT ![EndTask].pc = "exit_await"]
    /\ ready' = Append(Tail(ready), EndTask)
    /\ inChunk' = FALSE
    /\ UNCHANGED <<currentBatch, currentBatchSize, productsProcessed,
                   batchesSent, isShuttingDown, skippedProducts, errors,
                   nEmitted, paused, ended, exitCode, nShutdowns, sinkLog,
                   events, offered, received, failed, now, minBatchInterval,
                   lastBatchSentTime, maxRetries, requested, level,
                   logCalls>>

\* processor.process().then / .catch of the main script
ProcessExits ==
    /\ IsNext(EndTask, "exit_await")
    /\ exitCode' = IF result = "resolved" THEN "0" ELSE "1"
    /\ tasks' = [tasks EXCEPT ![EndTask].pc = "done"]
    /\ ready' = Tail(ready)
    /\ inChunk' = FALSE
    /\ UNCHANGED <<currentBatch, currentBatchSize, productsProcessed,
                   batchesSent, isShuttingDown, skippedProducts, errors,
                   metrics, nEmitted, paused, ended, result, nShutdowns,
                   sinkLog, events, offered, received, failed, now,
                   minBatchInterval, lastBatchSentTime, maxRetries,
                   requested, level, logCalls>>

\* the .catch of the main script after a source error: process.exit(1)
SourceErrorExits ==
    /\ IsNext(ErrorTask, "exit_await")
    /\ exitCode' = "1"
    /\ tasks' = [tasks EXCEPT ![ErrorTask].pc = "done"]
    /\ ready' = Tail(ready)
    /\ inChunk' = FALSE
    /\ UNCHANGED <<currentBatch, currentBatchSize, productsProcessed,
                   batchesSent, isShuttingDown, skippedProducts, errors,
                   metrics, nEmitted, paused, ended, result, nShutdowns,
                   sinkLog, events, offered, received, failed, now,
                   minBatchInterval, lastBatchSentTime, maxRetries,
                   requested, level, logCalls>>

\* a caller that awaits process() itself, as the tests do: it resumes when
\* process() has settled, and the process keeps running
CallerResumes(t) ==
    /\ t \in {EndTask, ErrorTask}
    /\ IsNext(t, "exit_await")
    /\ tasks' = [tasks EXCEPT ![t].pc = "done"]
    /\ ready' = Tail(ready)
    /\ inChunk' = FALSE
    /\ UNCHANGED <<currentBatch, currentBatchSize, productsProcessed,
                   batchesSent, isShuttingDown, skippedProducts, errors,
                   metrics, nEmitted, paused, ended, result, exitCode,
                   nShutdowns, sinkLog, events, offered, received, failed,
                   now, minBatchInterval, lastBatchSentTime, maxRetries,
                   requested, level, logCalls>>

\* a shutdown that reopens the processor once its flush has settled
ShutdownReopens(t) ==
    /\ t[1] = "shutdown"
    /\ IsNext(t, "caller_await")
    /\ isShuttingDown' = FALSE
    /\ tasks' = [tasks EXCEPT ![t].pc = "exit_await"]
    /\ ready' = Append(Tail(ready), t)
    /\ inChunk' = FALSE
    /\ UNCHANGED <<currentBatch, currentBatchSize, productsProcessed,
                   batchesSent, skippedProducts, errors, metrics, nEmitted,
                   paused, ended, result, exitCode, nShutdowns, sinkLog,
                   events, offered, received, failed, now, minBatchInterval,
                   lastBatchSentTime, maxRetries, requested, level,
                   logCalls>>

\* a caller that awaits shutdown() itself resumes; the process keeps running
ShutdownCallerResumes(t) ==
    /\ t[1] = "shutdown"
    /\ IsNext(t, "exit_await")
    /\ tasks' = [tasks EXCEPT ![t].pc = "done"]
    /\ ready' = Tail(ready)
    /\ inChunk' = FALSE
    /\ UNCHANGED <<currentBatch, currentBatchSize, productsProcessed,
                   batchesSent, isShuttingDown, skippedProducts, errors,
                   metrics, nEmitted, paused, ended, result, exitCode,
                   nShutdowns, sinkLog, events, offered, received, failed,
                   now, lastBatchSentTime, minBatchInterval, maxRetries,
                   requested, level, logCalls>>

\* shutdown after `await this.sendBatch()`: it returns or rethrows
ShutdownReturns(t) ==
    /\ t[1] = "shutdown"
    /\ IsNext(t, "caller_await")
    /\ tasks' = [tasks EXCEPT ![t].pc = "exit_await"]
    /\ ready' = Append(Tail(ready), t)
    /\ inChunk' = FALSE
    /\ UNCHANGED <<currentBatch, currentBatchSize, productsProcessed,
                   batchesSent, isShuttingDown, skippedProducts, errors,
                   metrics, nEmitted, paused, ended, result, exitCode,
                   nShutdowns, sinkLog, events, offered, received, failed,
                   now, minBatchInterval, lastBatchSentTime, maxRetries,
                   requested, level, logCalls>>

\* gracefulShutdown after `await processor.shutdown()`: process.exit
ShutdownExits(t) ==
    /\ t[1] = "shutdown"
    /\ IsNext(t, "exit_await")
    /\ exitCode' = IF tasks[t].outcome = "ok" THEN "0" ELSE "1"
    /\ tasks' = [tasks EXCEPT ![t].pc = "done"]
    /\ ready' = Tail(ready)
    /\ inChunk' = FALSE
    /\ UNCHANGED <<currentBatch, currentBatchSize, productsProcessed,
                   batchesSent, isShuttingDown, skippedProducts, errors,
                   metrics, nEmitted, paused, ended, result, nShutdowns,
                   sinkLog, events, offered, received, failed, now,
                   minBatchInterval, lastBatchSentTime, maxRetries,
                   requested, level, logCalls>>

(* ---------------------------- specification ---------------------------- *)

Next ==
    \/ ItemWhileShuttingDown
    \/ \E kind \in ItemKinds : ItemSkipped(kind)
    \/ \E kind \in ItemKinds : ItemAppended(kind)
    \/ \E kind \in ItemKinds : ItemFlushes(kind)
    \/ EndEvent
    \/ SourceError
    \/ ShutdownRequest
    \/ \E t \in DOMAIN tasks : BackoffEnds(t)
    \/ \E t \in DOMAIN tasks : SendBatchFinally(t)
    \/ \E t \in DOMAIN tasks : OfferResumes(t)
    \/ \E t \in DOMAIN tasks : OfferFails(t)
    \/ EndFlush
    \/ EndSettles
    \/ ProcessExits
    \/ SourceErrorExits
    \/ \E t \in DOMAIN tasks : ShutdownReturns(t)
    \/ \E t \in DOMAIN tasks : ShutdownExits(t)

Spec == Init /\ [][Next]_vars

\* what the event loop does by itself: it runs the next continuation and
\* fires the timers that are due
LoopStep ==
    \/ \E t \in DOMAIN tasks : BackoffEnds(t)
    \/ \E t \in DOMAIN tasks : SendBatchFinally(t)
    \/ \E t \in DOMAIN tasks : OfferResumes(t)
    \/ \E t \in DOMAIN tasks : OfferFails(t)
    \/ EndFlush
    \/ EndSettles
    \/ ProcessExits
    \/ SourceErrorExits
    \/ \E t \in DOMAIN tasks : ShutdownReturns(t)
    \/ \E t \in DOMAIN tasks : ShutdownExits(t)

\* the items of the runs checked for termination: one that fits and one
\* that forces a flush
DeliveryKinds == {"small", "huge"}

\* the main-script run over those items
NextDelivery ==
    \/ ItemWhileShuttingDown
    \/ \E kind \in DeliveryKinds : ItemAppended(kind)
    \/ \E kind \in DeliveryKinds : ItemFlushes(kind)
    \/ EndEvent
    \/ SourceError
    \/ ShutdownRequest
    \/ LoopStep

\* the event loop never idles while a continuation or a timer is pending;
\* nothing is assumed about the source or about signals
FairSpec == Init /\ [][NextDelivery]_vars /\ WF_vars(LoopStep)

\* a run over raw items of every shape, none large enough to force a flush
\* before the end of the source, and without signals
NextShapes ==
    \/ \E kind \in ShapeKinds : ItemSkipped(kind)
    \/ \E kind \in ShapeKinds : ItemAppended(kind)
    \/ EndEvent
    \/ \E t \in DOMAIN tasks : BackoffEnds(t)
    \/ \E t \in DOMAIN tasks : SendBatchFinally(t)
    \/ EndFlush
    \/ EndSettles
    \/ ProcessExits

SpecShapes == Init /\ [][NextShapes]_vars

\* the processor used as a library: process() is awaited by a caller, no
\* signal handler is installed and nothing ends the process
NextLibrary ==
    \/ \E kind \in ItemKinds : ItemSkipped(kind)
    \/ \E kind \in ItemKinds : ItemAppended(kind)
    \/ \E kind \in ItemKinds : ItemFlushes(kind)
    \/ EndEvent
    \/ SourceError
    \/ \E t \in DOMAIN tasks : BackoffEnds(t)
    \/ \E t \in DOMAIN tasks : SendBatchFinally(t)
    \/ \E t \in DOMAIN tasks : OfferResumes(t)
    \/ \E t \in DOMAIN tasks : OfferFails(t)
    \/ EndFlush
    \/ EndSettles
    \/ \E t \in DOMAIN tasks : CallerResumes(t)

SpecLibrary == Init /\ [][NextLibrary]_vars

\* the processor used as a library with a minimum interval between sends,
\* under a clock: process() and shutdown() are called and awaited
NextRate ==
    \/ ItemWhileShuttingDown
    \/ \E kind \in DeliveryKinds : ItemAppended(kind)
    \/ \E kind \in DeliveryKinds : ItemFlushes(kind)
    \/ EndEvent
    \/ ShutdownRequest
    \/ Tick
    \/ \E t \in DOMAIN tasks : RateSleepEnds(t)
    \/ \E t \in DOMAIN tasks : BackoffEnds(t)
    \/ \E t \in DOMAIN tasks : SendBatchFinally(t)
    \/ \E t \in DOMAIN tasks : OfferResumes(t)
    \/ \E t \in DOMAIN tasks : OfferFails(t)
    \/ EndFlush
    \/ EndSettles
    \/ \E t \in DOMAIN tasks : CallerResumes(t)
    \/ \E t \in DOMAIN tasks : ShutdownReturns(t)
    \/ \E t \in DOMAIN tasks : ShutdownCallerResumes(t)

SpecRate == InitRate /\ [][NextRate]_vars

\* the main-script run without signals, under every setting of MAX_RETRIES
NextRetries ==
    \/ \E kind \in DeliveryKinds : ItemAppended(kind)
    \/ \E kind \in DeliveryKinds : ItemFlushes(kind)
    \/ EndEvent
    \/ \E t \in DOMAIN tasks : BackoffEnds(t)
    \/ \E t \in DOMAIN tasks : SendBatchFinally(t)
    \/ \E t \in DOMAIN tasks : OfferResumes(t)
    \/ \E t \in DOMAIN tasks : OfferFails(t)
    \/ EndFlush
    \/ EndSettles
    \/ ProcessExits

SpecRetries == InitRetries /\ [][NextRetries]_vars

\* a Logger by itself: any calls in any order
NextLogger ==
    \/ LogCall("error")
    \/ LogCall("warn")
    \/ LogCall("info")
    \/ LogCall("debug")
    \/ \E batchSize \in {2, 100} : \E productCount \in {0, 2} :
          LogRecordBatch(batchSize, productCount)

SpecLogger == InitLogger /\ [][NextLogger]_vars

(* ------------------------- observations of a run ---------------------- *)

RECURSIVE DeliveredUpTo(_)
\* the records of the successful sink calls among the first n, in call order
DeliveredUpTo(n) ==
    IF n = 0 THEN <<>>
    ELSE IF sinkLog[n].ok
         THEN DeliveredUpTo(n - 1) \o JsonParse(sinkLog[n].json)
         ELSE DeliveredUpTo(n - 1)

Delivered == DeliveredUpTo(Len(sinkLog))

IsPrefix(s, t) == Len(s) <= Len(t) /\ s = SubSeq(t, 1, Len(s))

Range(s) == {s[i] : i \in 1..Len(s)}

\* the sink calls made for sequence number bn
CallsOf(bn) == {i \in 1..Len(sinkLog) : sinkLog[i].batchNumber = bn}

\* the ledger entries for sequence number bn
LedgerOf(bn) == {i \in 1..Len(errors) : errors[i].batchNumber = bn}

SetMax(S) == CHOOSE x \in S : \A y \in S : y <= x

(* -------------------------------- claims ------------------------------- *)

\* C1: with no shutdown and no delivery that exhausted its retries, the
\* records of the successful sink calls, concatenated in call order, are at
\* every moment a prefix of the valid records in source order, and are
\* exactly those records once process() has resolved.
C1_DeliveredIsSourceOrder ==
    (nShutdowns = 0 /\ errors = <<>>) =>
        /\ IsPrefix(Delivered, offered)
        /\ (result = "resolved" => Delivered = offered)

\* C2: if no offered record, encoded on its own, exceeds MAX_BATCH_SIZE,
\* every payload handed to the sink is smaller than
\* MAX_BATCH_SIZE - BUFFER_SIZE.
C2_GroupsBelowLimit ==
    (\A i \in 1..Len(offered) :
        calculateBatchSize(<<offered[i]>>) <= MAX_BATCH_SIZE) =>
    (\A i \in 1..Len(sinkLog) :
        ByteLength(sinkLog[i].json) < MAX_BATCH_SIZE - BUFFER_SIZE)

\* C3: while process() runs without a shutdown request, at most one
\* sendBatchWithRetry invocation is between its first attempt and its end.
C3_OneDeliveryInFlight ==
    nShutdowns = 0 =>
        Cardinality({t \in DOMAIN tasks : InDelivery(t)}) <= 1

\* C4: no step appends a record to currentBatch while some sendBatch has
\* serialized the group and has not yet reset it.
C4_NoAppendWhileSealing ==
    [][(\E t \in DOMAIN tasks : InSendBatch(t)) =>
          ~(Len(currentBatch') > Len(currentBatch))]_vars

\* C5: once a group has exhausted its retries, process() never resolves
\* normally.
C5_ExhaustionIsFatal ==
    errors # <<>> => result # "resolved"

\* C6: the group a shutdown hands to the sink shares no record with the
\* payload of any other sendBatch invocation, and when a shutdown ends the
\* process with exit code 0 and an empty ledger every record given to
\* addProductToBatch has been delivered.
C6_ShutdownFlushesExactlyOnce ==
    /\ \A t \in DOMAIN tasks :
         (t[1] = "shutdown" /\ tasks[t].batchNumber > 0) =>
            \A i \in 1..Len(sinkLog) :
               sinkLog[i].batchNumber # tasks[t].batchNumber =>
                  Range(JsonParse(sinkLog[i].json))
                     \cap Range(JsonParse(tasks[t].json)) = {}
    /\ (nShutdowns > 0 /\ exitCode = "0" /\ errors = <<>>) =>
          Range(offered) \subseteq Range(Delivered)

\* C7: a shutdown is never inside sendBatch together with a sendBatch that
\* started before it.
C7_ShutdownWaitsForDelivery ==
    \A s \in DOMAIN tasks : \A t \in DOMAIN tasks :
        (s[1] = "shutdown" /\ InSendBatch(s) /\ t # s /\ InSendBatch(t)) =>
            tasks[t].batchNumber > tasks[s].batchNumber

\* C8: a shutdown request that arrives when isShuttingDown is already true
\* changes nothing in the processor and calls the sink no further time.
C8_SecondShutdownIsNoOp ==
    [][(isShuttingDown /\ nShutdowns' = nShutdowns + 1) =>
          UNCHANGED <<currentBatch, currentBatchSize, productsProcessed,
                      batchesSent, isShuttingDown, skippedProducts, errors,
                      sinkLog>>]_vars

C10_ExhaustedDelivery ==
    \A t \in DOMAIN tasks :
        (/\ tasks[t].batchNumber > 0
         /\ tasks[t].pc # "backoff"
         /\ \A i \in CallsOf(tasks[t].batchNumber) : ~sinkLog[i].ok) =>
            /\ Cardinality(CallsOf(tasks[t].batchNumber)) = maxRetries
            /\ \A i \in CallsOf(tasks[t].batchNumber) :
                  sinkLog[i].json = tasks[t].json
            /\ Cardinality(LedgerOf(tasks[t].batchNumber)) = 1
            /\ \A i \in LedgerOf(tasks[t].batchNumber) :
                  errors[i].error =
                     sinkLog[SetMax(CallsOf(tasks[t].batchNumber))].error
            /\ tasks[t].outcome = "throw"

\* a sendBatch has exhausted its retries and rejected
C10_Witness ==
    \E t \in DOMAIN tasks :
        /\ tasks[t].outcome = "throw"
        /\ Cardinality(CallsOf(tasks[t].batchNumber)) = maxRetries
        /\ Len(errors) > 0

(* ----------------------- observations of the log ----------------------- *)

\* the logger calls (or sleeps) of kind ev made for sequence number bn
EventsOf(ev, bn) ==
    {i \in 1..Len(events) : events[i].ev = ev /\ events[i].batchNumber = bn}

FailedCallsOf(bn) == {i \in CallsOf(bn) : ~sinkLog[i].ok}

RECURSIVE SleptUpTo(_, _)
\* the milliseconds slept for sequence number bn in the first n events
SleptUpTo(n, bn) ==
    IF n = 0 THEN 0
    ELSE SleptUpTo(n - 1, bn)
         + (IF events[n].ev = "sleep" /\ events[n].batchNumber = bn
            THEN events[n].ms ELSE 0)

TotalSleep(bn) == SleptUpTo(Len(events), bn)

RECURSIVE GeometricSum(_)
\* 2^0 + ... + 2^(n-1)
GeometricSum(n) == IF n = 0 THEN 0 ELSE 2 ^ (n - 1) + GeometricSum(n - 1)

\* every record that any sink call carried
Handed == UNION {Range(JsonParse(sinkLog[i].json)) : i \in 1..Len(sinkLog)}

\* a field of a record has text left after trimming
HasText(v) ==
    \/ v.t = "str" /\ v.len > 0
    \/ v.t = "obj" /\ v.text.t = "str" /\ v.text.len > 0

\* a raw item whose id or title is empty after extraction and trimming
IsEmptyRecord(item) ==
    \/ ~HasText(extractProductData(item).id)
    \/ ~HasText(extractProductData(item).title)

RECURSIVE ExtractValid(_)
\* the records of the raw items that have an id and a title, in order
ExtractValid(items) ==
    IF items = <<>> THEN <<>>
    ELSE IF IsEmptyRecord(Head(items)) THEN ExtractValid(Tail(items))
    ELSE <<extractProductData(Head(items))>> \o ExtractValid(Tail(items))

\* the step is the 'end' handler calling sendBatch
EndFlushStep ==
    /\ EndTask \in DOMAIN tasks
    /\ tasks[EndTask].pc = "end_all"
    /\ tasks'[EndTask].pc # "end_all"

\* C11: a sendBatch whose delivery has ended after exactly maxRetries - 1
\* failed sink calls made maxRetries calls, the last one successful and with
\* the serialization of the group as it was when sendBatch was called,
\* logged exactly maxRetries - 1 warnings and one success, left no ledger
\* entry and resolved.
C11_RetryThenSuccess ==
    \A t \in DOMAIN tasks :
        LET bn    == tasks[t].batchNumber
            calls == CallsOf(bn)
        IN  (/\ bn > 0
             /\ tasks[t].pc # "backoff"
             /\ Cardinality(FailedCallsOf(bn)) = maxRetries - 1) =>
                /\ Cardinality(calls) = maxRetries
                /\ sinkLog[SetMax(calls)].ok
                /\ sinkLog[SetMax(calls)].json = JsonStringify(tasks[t].group)
                /\ JsonParse(sinkLog[SetMax(calls)].json) = tasks[t].group
                /\ Cardinality(EventsOf("warn", bn)) = maxRetries - 1
                /\ Cardinality(EventsOf("info", bn)) = 1
                /\ LedgerOf(bn) = {}
                /\ tasks[t].outcome = "ok"

\* a delivery succeeded on its last attempt
C11_Witness ==
    \E t \in DOMAIN tasks :
        /\ tasks[t].batchNumber > 0
        /\ tasks[t].outcome = "ok"
        /\ Cardinality(FailedCallsOf(tasks[t].batchNumber)) = maxRetries - 1
        /\ Cardinality(EventsOf("warn", tasks[t].batchNumber)) > 0

\* C12: within one delivery, the failed attempt with index k is followed by
\* one sleep of retryDelay * 2^k milliseconds if k < maxRetries - 1 and by no
\* sleep otherwise; a delivery waiting for its next attempt has last slept
\* for its current attempt; a delivery that failed maxRetries times slept
\* retryDelay * (2^0 + ... + 2^(maxRetries - 2)) milliseconds in total.
C12_ExponentialBackoff ==
    \A t \in DOMAIN tasks :
        LET bn     == tasks[t].batchNumber
            sleeps == EventsOf("sleep", bn)
            nFail  == Cardinality(FailedCallsOf(bn))
        IN  bn > 0 =>
               /\ \A i \in sleeps :
                     /\ events[i].attempt < maxRetries - 1
                     /\ events[i].ms = retryDelay * 2 ^ events[i].attempt
               /\ \A k \in 0..(maxRetries - 1) :
                     Cardinality({i \in sleeps : events[i].attempt = k}) =
                        IF k < nFail /\ k < maxRetries - 1 THEN 1 ELSE 0
               /\ tasks[t].pc = "backoff" =>
                     /\ sleeps # {}
                     /\ events[SetMax(sleeps)].attempt = tasks[t].attempt
               /\ nFail = maxRetries =>
                     TotalSleep(bn) = retryDelay * GeometricSum(maxRetries - 1)

\* a delivery failed on every attempt, with a backoff after all but the last
C12_Witness ==
    \E t \in DOMAIN tasks :
        /\ tasks[t].batchNumber > 0
        /\ Cardinality(FailedCallsOf(tasks[t].batchNumber)) = maxRetries
        /\ TotalSleep(tasks[t].batchNumber) > retryDelay

\* C13: the 'end' handler calls sendBatch only when every addProductToBatch
\* has settled, and when process() has resolved with an empty ledger every
\* record given to addProductToBatch has been handed to the sink and the
\* accumulator is empty.
C13_FinalFlushAfterOffers ==
    /\ (EndTask \in DOMAIN tasks
          /\ tasks[EndTask].pc \notin {"end_wait", "end_all"}) =>
          AllOffersSettled(tasks)
    /\ (result = "resolved" /\ errors = <<>>) =>
          /\ Range(offered) \subseteq Handed
          /\ currentBatch = <<>>

\* C14: of the raw items handled while not shutting down, those whose id or
\* title has no text after extraction and trimming are exactly the skipped
\* ones: skippedProducts counts them, they are not offered, not counted as
\* processed and in no payload; the others are offered, in source order.
C14_SkipRule ==
    LET empties == {i \in 1..Len(received) : IsEmptyRecord(received[i])}
    IN  /\ skippedProducts = Cardinality(empties)
        /\ offered = ExtractValid(received)
        /\ productsProcessed <= Len(offered)
        /\ \A i \in empties : extractProductData(received[i]) \notin Handed

\* C15: the source error rejects process() and calls the sink for nothing,
\* and no sink call follows it.
C15_SourceErrorRejects ==
    [][/\ failed' => result' = "rejected"
       /\ (failed \/ failed') => sinkLog' = sinkLog
       /\ (~failed /\ failed') => currentBatch' = currentBatch]_vars

\* C16: a raw item emitted once isShuttingDown is set changes no counter, no
\* group, no task and causes no sink call.
C16_IgnoredWhileShuttingDown ==
    [][(isShuttingDown /\ nEmitted' = nEmitted + 1) =>
          UNCHANGED <<currentBatch, currentBatchSize, productsProcessed,
                      skippedProducts, batchesSent, tasks, sinkLog, offered,
                      received>>]_vars

\* an item arrived after a shutdown request
C16_Witness ==
    /\ isShuttingDown
    /\ paused
    /\ nEmitted > Len(received)

\* C17: a sendBatch that has settled leaves the accumulator empty, and a
\* sendBatch called on an empty accumulator calls the sink no time and
\* changes no field of the processor.
C17_FlushIdempotent ==
    [][/\ (\E t \in DOMAIN tasks : /\ tasks[t].pc = "sendBatch_await"
                                   /\ tasks'[t].pc = "caller_await") =>
             currentBatch' = <<>>
       /\ (EndFlushStep /\ currentBatch = <<>>) =>
             UNCHANGED <<currentBatch, currentBatchSize, productsProcessed,
                         batchesSent, isShuttingDown, skippedProducts,
                         errors, metrics, sinkLog>>]_vars

\* the final sendBatch found the accumulator as an earlier sendBatch left it
C17_Witness ==
    /\ EndTask \in DOMAIN tasks
    /\ tasks[EndTask].pc \in {"caller_await", "exit_await", "done"}
    /\ tasks[EndTask].batchNumber = 0
    /\ batchesSent > 0
    /\ Len(sinkLog) > 0

\* C18: the estimated size of currentBatch is below
\* MAX_BATCH_SIZE - BUFFER_SIZE, or currentBatch holds exactly one record.
C18_SizeOrSingle ==
    \/ calculateBatchSize(currentBatch) < MAX_BATCH_SIZE - BUFFER_SIZE
    \/ Len(currentBatch) = 1

\* C19: when an addProductToBatch that had to flush returns, the sink has
\* been called for the group it flushed, that group does not hold its
\* record, and its record is the only record of currentBatch.
C19_FlushThenStartGroup ==
    [][\A t \in DOMAIN tasks :
          (/\ t[1] = "offer"
           /\ tasks[t].pc = "caller_await"
           /\ tasks[t].outcome = "ok"
           /\ tasks'[t].pc = "done") =>
              /\ CallsOf(tasks[t].batchNumber) # {}
              /\ tasks[t].product \notin Range(tasks[t].group)
              /\ currentBatch' = <<tasks[t].product>>]_vars

\* C20: every successfully delivered payload of at least
\* MAX_BATCH_SIZE - BUFFER_SIZE bytes holds exactly one record.
C20_OversizedAlone ==
    \A i \in 1..Len(sinkLog) :
        (sinkLog[i].ok
           /\ ByteLength(sinkLog[i].json) >= MAX_BATCH_SIZE - BUFFER_SIZE) =>
              Len(JsonParse(sinkLog[i].json)) = 1

(* --------------------- observations of the metrics --------------------- *)

OkCallsUpTo(n) == {i \in 1..n : sinkLog[i].ok}

RECURSIVE RecordsUpTo(_)
\* the number of records in the successful sink calls among the first n
RecordsUpTo(n) ==
    IF n = 0 THEN 0
    ELSE RecordsUpTo(n - 1)
         + (IF sinkLog[n].ok THEN Len(JsonParse(sinkLog[n].json)) ELSE 0)

RECURSIVE BytesUpTo(_)
\* the number of bytes in the successful sink calls among the first n
BytesUpTo(n) ==
    IF n = 0 THEN 0
    ELSE BytesUpTo(n - 1)
         + (IF sinkLog[n].ok THEN ByteLength(sinkLog[n].json) ELSE 0)

\* the sendBatchWithRetry invocations that exhausted their retries
Exhausted ==
    {t \in DOMAIN tasks : tasks[t].batchNumber > 0
                            /\ tasks[t].outcome = "throw"}

\* C22: once isShuttingDown is true it stays true, and no raw item is taken
\* from the source (skipped or given to addProductToBatch) from then on.
C22_ShutdownIsOneWay ==
    [][isShuttingDown =>
          /\ isShuttingDown'
          /\ offered' = offered
          /\ received' = received
          /\ skippedProducts' = skippedProducts]_vars

\* a shutdown ran to its end with the flag still set
C22_Witness ==
    /\ isShuttingDown
    /\ \E t \in DOMAIN tasks : t[1] = "shutdown" /\ tasks[t].pc = "done"
    /\ nEmitted > 0

C26_MetricsMatchDeliveries ==
    /\ metrics.batchesSent = Cardinality(OkCallsUpTo(Len(sinkLog)))
    /\ metrics.productsProcessed = RecordsUpTo(Len(sinkLog))
    /\ metrics.totalBytesProcessed = BytesUpTo(Len(sinkLog))

\* a run with a failed and a successful sink call
C26_Witness ==
    /\ metrics.batchesSent >= 1
    /\ metrics.totalBytesProcessed > 0
    /\ \E i \in 1..Len(sinkLog) : ~sinkLog[i].ok

\* C27: the step in which a sendBatch settles leaves currentBatch empty and
\* currentBatchSize 0, and no sink call made for a later sequence number
\* carries a record of a group that exhausted its retries.
C27_SettledFlushLeavesNothing ==
    [][/\ (\E t \in DOMAIN tasks : /\ tasks[t].pc = "sendBatch_await"
                                   /\ tasks'[t].pc = "caller_await") =>
             (currentBatch' = <<>> /\ currentBatchSize' = 0)
       /\ \A t \in Exhausted' : \A i \in 1..Len(sinkLog') :
             sinkLog'[i].batchNumber > tasks'[t].batchNumber =>
                Range(JsonParse(sinkLog'[i].json))
                   \cap Range(tasks'[t].group) = {}]_vars

\* C28: every payload given to the sink holds at least one record.
C28_NoEmptyPayload ==
    \A i \in 1..Len(sinkLog) : Len(JsonParse(sinkLog[i].json)) >= 1

\* a shutdown found the accumulator empty after earlier sink calls
C28_Witness ==
    /\ Len(sinkLog) >= 1
    /\ \E t \in DOMAIN tasks :
          /\ t[1] = "shutdown"
          /\ tasks[t].pc = "done"
          /\ tasks[t].batchNumber = 0

Present(v) == v.t = "obj" \/ (v.t = "str" /\ v.ws + v.len > 0)

\* the trimmed text of a field value: of the string itself, of the text a
\* holder wraps, and the empty string where there is no text
TextOf(v) ==
    IF v.t = "str" THEN [v EXCEPT !.ws = 0]
    ELSE IF v.t = "obj" /\ v.text.t = "str" THEN [v.text EXCEPT !.ws = 0]
    ELSE EmptyStr

\* the first of the candidates that is there, the empty string if none is
RECURSIVE FirstPresent(_)
FirstPresent(candidates) ==
    IF candidates = <<>> THEN EmptyStr
    ELSE IF Present(Head(candidates)) THEN Head(candidates)
    ELSE FirstPresent(Tail(candidates))

ExpectedProduct(item) ==
    [id          |-> TextOf(FirstPresent(<<item.gid, item.id>>)),
     title       |-> TextOf(FirstPresent(<<item.title>>)),
     description |-> TextOf(FirstPresent(<<item.gdescription,
                                           item.description, item.summary>>))]

\* C24: for every raw item handled, extractProductData gives the trimmed
\* text of g:id or else id, of title, and of g:description or else
\* description or else summary; the empty string for a field that is not
\* there; the trimmed inner text for a text holder.
C24_ExtractionPolicy ==
    \A i \in 1..Len(received) :
        extractProductData(received[i]) = ExpectedProduct(received[i])

\* C25: every object of every delivered payload has string values for id,
\* title and description, and its id and title are not empty.
C25_DeliveredObjectsAreStrings ==
    \A i \in 1..Len(sinkLog) :
        sinkLog[i].ok =>
           \A p \in Range(JsonParse(sinkLog[i].json)) :
              /\ DOMAIN p = {"id", "title", "description"}
              /\ p.id.t = "str" /\ p.id.len > 0
              /\ p.title.t = "str" /\ p.title.len > 0
              /\ p.description.t = "str"

(* ------------------------------ termination ---------------------------- *)

\* every task a run can create
TaskIds ==
    {OfferTask(k) : k \in 1..MaxItems}
       \cup {ShutdownTask(j) : j \in 1..MaxShutdowns}
       \cup {EndTask, ErrorTask}

\* task t sleeps between two attempts of its delivery
AwaitsRetry(t) == t \in DOMAIN tasks /\ tasks[t].pc = "backoff"

\* C30: no sendBatchWithRetry invocation makes more than maxRetries sink
\* calls, one that is no longer waiting has returned or thrown, and from
\* some moment on no invocation waits for its next attempt while the process
\* runs.
C30_DeliveryTerminates ==
    /\ [](\A t \in DOMAIN tasks :
             tasks[t].batchNumber > 0 =>
                /\ Cardinality(CallsOf(tasks[t].batchNumber)) <= maxRetries
                /\ tasks[t].pc # "backoff" =>
                      tasks[t].outcome \in {"ok", "throw"})
    /\ <>[](Running => \A t \in TaskIds : ~AwaitsRetry(t))

\* a shutdown waited for a retry and its delivery then came to an end
C30_Witness ==
    \E t \in DOMAIN tasks :
        /\ t[1] = "shutdown"
        /\ tasks[t].pc = "done"
        /\ Cardinality(CallsOf(tasks[t].batchNumber)) = maxRetries

(* ------------------------------- rate limit ---------------------------- *)

\* C21: with a positive minBatchInterval, every sink call is made at least
\* minBatchInterval after each successful sink call before it.
C21_RateLimitHolds ==
    minBatchInterval > 0 =>
       \A i \in 1..Len(sinkLog) : \A j \in 1..(i - 1) :
          sinkLog[j].ok => sinkLog[i].at - sinkLog[j].at >= minBatchInterval

(* ------------------------- frame of the accumulator -------------------- *)

\* C31: the reset of a sendBatch removes only the records of the group it
\* serialized: a record appended to currentBatch after the serialization is
\* still in currentBatch after the reset.
C31_ResetKeepsLaterRecords ==
    [][\A t \in DOMAIN tasks :
          (/\ tasks[t].pc = "sendBatch_await"
           /\ tasks'[t].pc = "caller_await") =>
              \A r \in Range(currentBatch) \ Range(tasks[t].group) :
                 r \in Range(currentBatch')]_vars

(* --------------------------- sequence numbers -------------------------- *)

\* C32: all sink calls made for one sequence number carry the same payload,
\* the serialization of the group as it was when sendBatch was called,
\* whatever happened to currentBatch during the waits between them.
C32_SamePayloadPerNumber ==
    /\ \A i, j \in 1..Len(sinkLog) :
          sinkLog[i].batchNumber = sinkLog[j].batchNumber =>
             sinkLog[i].json = sinkLog[j].json
    /\ \A t \in DOMAIN tasks : \A i \in CallsOf(tasks[t].batchNumber) :
          tasks[t].batchNumber > 0 =>
             sinkLog[i].json = JsonStringify(tasks[t].group)

\* a group was retried after a wait during which currentBatch changed
C32_Witness ==
    \E t \in DOMAIN tasks :
       /\ tasks[t].batchNumber > 0
       /\ Cardinality(CallsOf(tasks[t].batchNumber)) >= 2
       /\ currentBatch # tasks[t].group
       /\ currentBatch # <<>>
       /\ tasks[t].pc = "sendBatch_await"

\* the sendBatch invocations that found a non-empty group
Numbered == {t \in DOMAIN tasks : tasks[t].batchNumber > 0}

\* C33: the sendBatch invocations that found a non-empty group carry the
\* sequence numbers 1, 2, ... in the order of their calls, each number once,
\* and batchesSent is the number of such invocations, whether delivered,
\* failed or still in flight.
C33_NumbersUniqueAndGapFree ==
    [][/\ batchesSent' = Cardinality(Numbered')
       /\ {tasks'[t].batchNumber : t \in Numbered'} = 1..batchesSent'
       /\ \A t \in Numbered' \ Numbered :
             tasks'[t].batchNumber = Cardinality(Numbered) + 1
       /\ \A i \in 1..Len(sinkLog') :
             sinkLog'[i].batchNumber \in 1..batchesSent']_vars

\* more groups were numbered than were delivered: one of them failed
C33_Witness ==
    /\ batchesSent >= 2
    /\ metrics.batchesSent >= 1
    /\ batchesSent > metrics.batchesSent
    /\ Exhausted # {}

(* ------------------------------- counters ------------------------------ *)

\* the addProductToBatch calls whose pre-flush exhausted its retries
FailedOffers ==
    {t \in DOMAIN tasks : /\ t[1] = "offer"
                          /\ tasks[t].outcome = "throw"
                          /\ tasks[t].pc = "done"}

\* the addProductToBatch calls that have not returned or thrown yet
PendingOffers ==
    {t \in DOMAIN tasks : t[1] = "offer" /\ tasks[t].pc # "done"}

\* C34: productsProcessed goes up by one exactly in the steps that append a
\* record to currentBatch, so it is the number of appends; and when the
\* pre-flush of addProductToBatch(r) exhausts its retries, the call ends
\* with currentBatch empty, r not appended and neither counter changed.
C34_ProcessedCountsAppends ==
    [][/\ productsProcessed' \in {productsProcessed, productsProcessed + 1}
       /\ (productsProcessed' = productsProcessed + 1) <=>
             (/\ Len(currentBatch') = Len(currentBatch) + 1
              /\ IsPrefix(currentBatch, currentBatch'))
       /\ productsProcessed' = Len(offered') - Cardinality(PendingOffers')
                                             - Cardinality(FailedOffers')
       /\ \A t \in FailedOffers' \ FailedOffers :
             /\ currentBatch' = <<>>
             /\ productsProcessed' = productsProcessed
             /\ skippedProducts' = skippedProducts
       /\ \A t \in FailedOffers' :
             tasks'[t].product \notin Range(currentBatch')]_vars

\* a pre-flush exhausted its retries after records had been appended
C34_Witness ==
    /\ FailedOffers # {}
    /\ productsProcessed >= 1
    /\ Len(offered) > productsProcessed

(* ------------------------------ MAX_RETRIES ---------------------------- *)

\* C35: the configuration turns an unset, zero or non-numeric MAX_RETRIES
\* into 3 and uses every other integer as given; and under each such value a
\* sendBatchWithRetry that has ended for a non-empty group has called the
\* sink at least once, and if it threw it has left a ledger entry.
C35_AtLeastOneAttempt ==
    /\ \A env \in EnvValues :
          ConfigMaxRetries(env) =
             IF env.t = "int" /\ env.n # 0 THEN env.n ELSE 3
    /\ \A t \in Numbered :
          tasks[t].outcome # "none" =>
             /\ CallsOf(tasks[t].batchNumber) # {}
             /\ tasks[t].outcome = "throw" =>
                   LedgerOf(tasks[t].batchNumber) # {}

(* --------------------------------- logger ------------------------------ *)

\* C36: a Logger constructed with one of the level names has the rank of
\* that level as its level, and writes a message exactly if the rank of the
\* message's level is at most the rank of the constructed level.
C36_EmitsUpToLevel ==
    /\ level = LOG_LEVELS[requested]
    /\ \A i \in 1..Len(logCalls) :
          logCalls[i].method \in LevelNames =>
             (logCalls[i].out <=>
                LOG_LEVELS[logCalls[i].method] <= LOG_LEVELS[requested])

\* the calls of error() among the calls on the logger
ErrorCalls == {i \in 1..Len(logCalls) : logCalls[i].method = "error"}

\* C37: metrics.errors is the number of error() calls made so far, written
\* or not, and a call of warn, info, debug or recordBatch leaves it as it is.
C37_ErrorsCountErrorCalls ==
    [][/\ metrics'.errors = Cardinality(ErrorCalls')
       /\ (/\ Len(logCalls') = Len(logCalls) + 1
           /\ logCalls'[Len(logCalls')].method # "error") =>
              metrics'.errors = metrics.errors]_vars

\* error() was called twice and another method in between
C37_Witness ==
    /\ metrics.errors = 2
    /\ Len(logCalls) = 3
    /\ logCalls[2].method # "error"

(* --------------------------- size of the group ------------------------- *)

\* C38: at every moment between two steps of the processor, and so whenever
\* an addProductToBatch or sendBatch call has returned, currentBatchSize is
\* calculateBatchSize(currentBatch) if currentBatch holds a record and 0 if
\* it holds none.
C38_SizeMatchesGroup ==
    currentBatchSize = IF currentBatch = <<>>
                       THEN 0
                       ELSE calculateBatchSize(currentBatch)

\* a sendBatch has returned to an addProductToBatch that then pushed its
\* record, and another record was appended after it
C38_Witness ==
    /\ Len(currentBatch) >= 2
    /\ \E t \in DOMAIN tasks : /\ t[1] = "offer"
                               /\ tasks[t].pc = "done"
                               /\ tasks[t].outcome = "ok"
                               /\ tasks[t].product \in Range(currentBatch)

=============================================================================
